---- MODULE Spec2Model ----
(***************************************************************************)
(* UNITER (mmf/models/uniter.py): the joint encoder base, the head-output  *)
(* post-processing shared by the two wrappers, and the pretraining         *)
(* wrapper's forward pass with its sample-list preprocessing.              *)
(*                                                                         *)
(* Tensors are sequences of rows (dimension 0 is the batch).  A region     *)
(* feature row and a classifier-probability row are abstracted to one      *)
(* natural number: 0 is the all-zero row written by masked_fill, a         *)
(* positive number identifies the raw row of one (example, region) pair.   *)
(* A sample list is a function from the names of the fields it holds.      *)
(***************************************************************************)
EXTENDS Integers, Sequences, FiniteSets, TLC

VARIABLES
    processed_sample_list,  \* the batch object threaded through forward
    config,                 \* the model configuration fixed at construction
    result,                 \* outcome of the last call
    steps,                  \* routines the last call ran, in order
    outputs,                \* what the head returned in the last call
    final_layer,            \* what the encoder returned in the last call
    calls                   \* number of calls made so far

vars ==
    <<processed_sample_list, config, result, steps, outputs, final_layer, calls>>

(* ------------------------------ bounds -------------------------------- *)
MaxB == 2
MaxT == 2
MaxN == 2
RandRes == 2
MaxMissing == 1
MaxCalls == 2
MaxRank == 3
MaxFailures == 7

(* ------------------------------ helpers ------------------------------- *)
Has(sl, k) == k \in DOMAIN sl

Put(sl, k, v) == [f \in (DOMAIN sl) \cup {k} |-> IF f = k THEN v ELSE sl[f]]

Range(s) == {s[i] : i \in DOMAIN s}

RECURSIVE SelectSeq2(_, _, _)
\* the elements of row x at the positions where m is true, in order
SelectSeq2(x, m, i) ==
    IF i > Len(x) THEN << >>
    ELSE (IF m[i] THEN <<x[i]>> ELSE << >>) \o SelectSeq2(x, m, i + 1)

RECURSIVE Flatten(_, _)
Flatten(rows, i) ==
    IF i > Len(rows) THEN << >> ELSE rows[i] \o Flatten(rows, i + 1)

RECURSIVE SeqMax(_, _)
SeqMax(s, i) ==
    IF i > Len(s) THEN 0
    ELSE LET r == SeqMax(s, i + 1) IN IF s[i] > r THEN s[i] ELSE r

RECURSIVE Prod(_, _)
Prod(s, n) == IF n = 0 THEN 1 ELSE s[n] * Prod(s, n - 1)

NoError == "none"

Run(sl, st, err) == [sl |-> sl, steps |-> st, err |-> err]

(* --------------------------- task vocabulary -------------------------- *)
PretrainTasks == {"mlm", "itm", "mrc", "mrfr", "wra"}

TaskValues == PretrainTasks \cup {"vqa"}

\* keys the heads' configurations name (self.heads[...].config.<attr>)
mrc_label_key == "mrc_label_key"
mrc_mask_key == "mrc_mask_key"
mrfr_target_key == "mrfr_target_key"
mrfr_mask_key == "mrfr_mask_key"
ot_inputs_key == "ot_inputs_key"
wra_label_key == "wra_label_key"
ignore_index == -1

(* ------------------- UniterForPretraining: masking -------------------- *)
\* random.random() < mask_prob, with random() = draw/RandRes in [0, 1) and
\* mask_prob = mask_prob/RandRes in [0, 1]
NoForce_get_img_mask(mask_prob, num_bb, draws, choice) ==
    [i \in 1..num_bb |-> draws[i] < mask_prob]

_get_img_mask(mask_prob, num_bb, draws, choice) ==
    LET img_mask == [i \in 1..num_bb |-> draws[i] < mask_prob]
    IN  IF ~(\E i \in 1..num_bb : img_mask[i])
        THEN [i \in 1..num_bb |-> IF i = choice THEN TRUE ELSE img_mask[i]]
        ELSE img_mask

\* every list one call of _get_img_mask can return
ImgMaskOutcomes(mask_prob, num_bb) ==
    { _get_img_mask(mask_prob, num_bb, d, c) :
        d \in [1..num_bb -> 0..(RandRes - 1)], c \in 1..num_bb }

\* masked_fill(img_masks_ext, 0): zero rows where the mask is true
MaskedFill(feat, masks) ==
    [b \in 1..Len(feat) |->
        [n \in 1..Len(feat[b]) |-> IF masks[b][n] THEN 0 ELSE feat[b][n]]]

_add_image_feat_masked(sl, img_masks) ==
    LET img_feat_masked == sl["image_feat"]
    IN  Put(Put(sl, "image_feat_masked", MaskedFill(img_feat_masked, img_masks)),
            "image_mask", img_masks)

(* -------------- UniterForPretraining: mismatched captions ------------- *)
\* x[pos_pairs_mask]: the rows of x at the true positions of the mask
FilterRows(x, mask) == SelectSeq2(x, mask, 1)

\* torch.where(pos_pairs.any(), pos_pairs, pos_pairs.new([True]))
PosPairsMask(is_correct) ==
    LET pos_pairs == [i \in 1..Len(is_correct) |-> is_correct[i] # 0]
    IN  IF \E i \in 1..Len(is_correct) : pos_pairs[i]
        THEN pos_pairs
        ELSE [i \in 1..Len(is_correct) |-> TRUE]

tensor_names ==
    {"input_ids", "input_mask", "image_feat", "img_pos_feat", "attention_mask",
     "image_mask", "image_feat_masked", "lm_label_ids", "cls_prob"}

\* The loop indexes each listed tensor into the local x and never stores x
\* back into the sample list: the sample list comes out as it went in.  The
\* indexing itself raises when a tensor's dimension 0 differs from the mask's.
_remove_mismatched_captions(r) ==
    IF r.err # NoError THEN r
    ELSE LET sl == r.sl
             st == Append(r.steps, "_remove_mismatched_captions")
         IN  IF ~Has(sl, "is_correct") THEN Run(sl, st, "AssertionError")
             ELSE LET pos_pairs_mask == PosPairsMask(sl["is_correct"])
                      x == [name \in tensor_names \cap DOMAIN sl |->
                               FilterRows(sl[name], pos_pairs_mask)]
                  IN  IF \E name \in tensor_names \cap DOMAIN sl :
                             Len(sl[name]) # Len(pos_pairs_mask)
                      THEN Run(sl, st, "IndexError")
                      ELSE Run(sl, st, NoError)

\* the common step without the masked copy for mrc and mrfr
NoMask_process_sample_list_for_pretraining(r, img_masks) ==
    IF r.err # NoError THEN r
    ELSE LET st0 == Append(r.steps, "_process_sample_list_for_pretraining")
             r1 == Run(r.sl, st0, NoError)
         IN  IF ~(r.sl["task"] = "itm") /\ ~(r.sl["task"] = "wra")
             THEN _remove_mismatched_captions(r1)
             ELSE r1

_process_sample_list_for_pretraining(r, img_masks) ==
    IF r.err # NoError THEN r
    ELSE LET sl == r.sl
             task == sl["task"]
             st0 == Append(r.steps, "_process_sample_list_for_pretraining")
             r1 == IF task = "mrc" \/ task = "mrfr"
                   THEN LET st1 == Append(st0, "_add_image_feat_masked")
                            sl1 == _add_image_feat_masked(sl, img_masks)
                        IN  IF ~Has(sl1, "image_info_0")
                            THEN Run(sl1, st1, "KeyError")
                            ELSE Run(Put(sl1, "cls_prob",
                                         sl1["image_info_0"]["cls_prob"]),
                                     st1, NoError)
                   ELSE Run(sl, st0, NoError)
         IN  IF ~(task = "itm") /\ ~(task = "wra")
             THEN _remove_mismatched_captions(r1)
             ELSE r1

(* ------------- UniterForPretraining: task preprocessing --------------- *)
\* torch.full(image_feat.shape[:2], fill_value=ignore_index)
FullLike(image_feat, fill_value) ==
    [b \in 1..Len(image_feat) |-> [n \in 1..Len(image_feat[b]) |-> fill_value]]

\* torch.cat([a, b], dim=-1) of two 2-d tensors; needs equal dimension 0
CatLast(a, b) == [i \in 1..Len(a) |-> a[i] \o b[i]]

\* x[img_masks_ext].contiguous().view(-1, dim): the rows of x at the true
\* positions of the mask, batch-major
GatherMasked(x, image_mask) ==
    Flatten([b \in 1..Len(x) |-> SelectSeq2(x[b], image_mask[b], 1)], 1)

\* the combined mask with the image block first
ImgFirstConcatMask(input_ids, image_mask) ==
    LET bs == Len(image_mask)
        sentence_len == Len(input_ids[1])
        padding_for_txt == [b \in 1..bs |-> [t \in 1..sentence_len |-> FALSE]]
    IN  CatLast(image_mask, padding_for_txt)

\* torch.cat([torch.zeros((bs, sentence_len)).to(image_mask), image_mask], -1)
ConcatMask(input_ids, image_mask) ==
    LET bs == Len(image_mask)
        sentence_len == Len(input_ids[1])
        padding_for_txt == [b \in 1..bs |-> [t \in 1..sentence_len |-> FALSE]]
    IN  CatLast(padding_for_txt, image_mask)

\* an mlm preprocessing that leaves input_ids as it found them
NoSwap_preprocess_mlm(r) ==
    LET sl == r.sl
        st == Append(r.steps, "_preprocess_mlm")
    IN  IF ~Has(sl, "lm_label_ids") \/ ~Has(sl, "input_ids_masked")
        THEN Run(sl, st, "AssertionError")
        ELSE LET text == sl["lm_label_ids"]
                 image == FullLike(sl["image_feat"], ignore_index)
                 mlm_labels == [text |-> text, image |-> image,
                                combined_labels |-> CatLast(text, image)]
             IN  Run(Put(sl, "mlm_labels", mlm_labels), st, NoError)

_preprocess_mlm(r) ==
    LET sl == r.sl
        st == Append(r.steps, "_preprocess_mlm")
    IN  IF ~Has(sl, "lm_label_ids") \/ ~Has(sl, "input_ids_masked")
        THEN Run(sl, st, "AssertionError")
        ELSE LET text == sl["lm_label_ids"]
                 image == FullLike(sl["image_feat"], ignore_index)
                 mlm_labels == [text |-> text, image |-> image,
                                combined_labels |-> CatLast(text, image)]
             IN  IF Len(text) # Len(image)
                 THEN Run(sl, st, "RuntimeError")
                 ELSE Run(Put(Put(sl, "mlm_labels", mlm_labels),
                              "input_ids", sl["input_ids_masked"]),
                          st, NoError)

_preprocess_itm(r) ==
    LET sl == r.sl
        st == Append(r.steps, "_preprocess_itm")
    IN  IF ~Has(sl, "is_correct") THEN Run(sl, st, "AssertionError")
        ELSE Run(Put(sl, "itm_labels", [is_correct |-> sl["is_correct"]]),
                 st, NoError)

\* an mrc preprocessing that leaves image_feat as it found it
NoSwap_preprocess_mrc(r) ==
    LET sl == r.sl
        st == Append(r.steps, "_preprocess_mrc")
    IN  IF ~Has(sl, "cls_prob") \/ ~Has(sl, "image_mask")
           \/ ~Has(sl, "image_feat_masked")
        THEN Run(sl, st, "AssertionError")
        ELSE LET image_mask == sl["image_mask"]
                 sl1 == Put(sl, mrc_label_key, GatherMasked(sl["cls_prob"], image_mask))
             IN  Run(Put(sl1, mrc_mask_key, ConcatMask(sl["input_ids"], image_mask)),
                     st, NoError)

_preprocess_mrc(r) ==
    LET sl == r.sl
        st == Append(r.steps, "_preprocess_mrc")
    IN  IF ~Has(sl, "cls_prob") \/ ~Has(sl, "image_mask")
           \/ ~Has(sl, "image_feat_masked")
        THEN Run(sl, st, "AssertionError")
        ELSE LET image_mask == sl["image_mask"]
                 cls_prob == GatherMasked(sl["cls_prob"], image_mask)
                 sl1 == Put(sl, mrc_label_key, cls_prob)
                 concat_mask == ConcatMask(sl["input_ids"], image_mask)
                 sl2 == Put(sl1, mrc_mask_key, concat_mask)
             IN  Run(Put(sl2, "image_feat", sl2["image_feat_masked"]),
                     st, NoError)

\* mrfr with the masked features swapped in before the targets are gathered
SwapFirst_preprocess_mrfr(r) ==
    LET sl == Put(r.sl, "image_feat", r.sl["image_feat_masked"])
        st == Append(r.steps, "_preprocess_mrfr")
        image_mask == sl["image_mask"]
        sl1 == Put(sl, mrfr_target_key, GatherMasked(sl["image_feat"], image_mask))
    IN  Run(Put(sl1, mrfr_mask_key, ConcatMask(sl["input_ids"], image_mask)),
            st, NoError)

_preprocess_mrfr(r) ==
    LET sl == r.sl
        st == Append(r.steps, "_preprocess_mrfr")
    IN  IF ~Has(sl, "image_mask") \/ ~Has(sl, "image_feat_masked")
        THEN Run(sl, st, "AssertionError")
        ELSE LET image_mask == sl["image_mask"]
                 image_feat == sl["image_feat"]
                 feat_targets == GatherMasked(image_feat, image_mask)
                 sl1 == Put(sl, mrfr_target_key, feat_targets)
                 concat_mask == ConcatMask(sl["input_ids"], image_mask)
                 sl2 == Put(sl1, mrfr_mask_key, concat_mask)
             IN  Run(Put(sl2, "image_feat", sl2["image_feat_masked"]),
                     st, NoError)

\* pad = zeros(len(lens), max(lens)); pad[i, l:] = 1
_compute_pad(lens) ==
    LET max_len == SeqMax(lens, 1)
    IN  [i \in 1..Len(lens) |-> [j \in 1..max_len |-> j > lens[i]]]

_preprocess_wra(r) ==
    LET sl == r.sl
        st == Append(r.steps, "_preprocess_wra")
    IN  IF ~Has(sl, "is_correct") THEN Run(sl, st, "AssertionError")
        ELSE LET txt_lens == [i \in 1..Len(sl["input_ids"]) |->
                                 Len(sl["input_ids"][i])]
                 num_bbs == [f \in 1..Len(sl["image_feat"]) |->
                                Len(sl["image_feat"][f])]
                 ot_inputs == [txt_pad |-> _compute_pad(txt_lens),
                               img_pad |-> _compute_pad(num_bbs)]
             IN  Run(Put(Put(sl, ot_inputs_key, ot_inputs),
                         wra_label_key, sl["is_correct"]),
                     st, NoError)

(* --------------------------- UniterModelBase -------------------------- *)
\* an absent tensor argument
None == << >>

Emb(mod, pos, val, masked) ==
    [mod |-> mod, pos |-> pos, val |-> val, masked |-> masked]

\* BertEmbeddings: one embedding per token, at the position position_ids gives
_compute_txt_embeddings(input_ids, position_ids) ==
    [b \in 1..Len(input_ids) |->
        [t \in 1..Len(input_ids[b]) |->
            Emb("txt", position_ids[1][t], input_ids[b][t], FALSE)]]

\* UniterImageEmbeddings: one embedding per region; the mask embedding is
\* added at the positions img_masks flags
_compute_img_embeddings(img_feat, img_pos_feat, img_masks) ==
    [b \in 1..Len(img_feat) |->
        [n \in 1..Len(img_feat[b]) |->
            Emb("img", n, img_feat[b][n],
                IF img_masks = None THEN FALSE ELSE img_masks[b][n])]]

\* the cat with the image block first
ImgFirst_compute_img_txt_embeddings(input_ids, position_ids, img_feat, img_pos_feat, gather_index, img_masks) ==
    LET txt_emb == _compute_txt_embeddings(input_ids, position_ids)
        img_emb == _compute_img_embeddings(img_feat, img_pos_feat, img_masks)
    IN  CatLast(img_emb, txt_emb)

\* torch.cat([txt_emb, img_emb], dim=1); gather_index is not read
_compute_img_txt_embeddings(input_ids, position_ids, img_feat, img_pos_feat, gather_index, img_masks) ==
    LET txt_emb == _compute_txt_embeddings(input_ids, position_ids)
        img_emb == _compute_img_embeddings(img_feat, img_pos_feat, img_masks)
    IN  CatLast(txt_emb, img_emb)

EncOut(err, path, out, bias) ==
    [err |-> err, path |-> path, sequence_output |-> out, bias |-> bias]

\* (1.0 - attention_mask) * -10000.0
ExtendedAttentionMask(attention_mask) ==
    [b \in 1..Len(attention_mask) |->
        [j \in 1..Len(attention_mask[b]) |-> (1 - attention_mask[b][j]) * (-10000)]]

\* UniterModelBase.forward.  The encoder stack keeps the sequence positions;
\* its output is represented by the embedding sequence it was given.
UniterModelBase_forward(input_ids, position_ids, img_feat, img_pos_feat, attention_mask, gather_index, img_masks) ==
    LET bias == ExtendedAttentionMask(attention_mask)
    IN  IF input_ids = None
        THEN IF img_feat = None
             THEN EncOut("TypeError", "image", None, bias)
             ELSE EncOut(NoError, "image",
                         _compute_img_embeddings(img_feat, img_pos_feat, img_masks),
                         bias)
        ELSE IF img_feat = None
        THEN IF Len(position_ids[1]) # Len(input_ids[1])
             THEN EncOut("RuntimeError", "text", None, bias)
             ELSE EncOut(NoError, "text",
                         _compute_txt_embeddings(input_ids, position_ids), bias)
        ELSE IF Len(position_ids[1]) # Len(input_ids[1])
                \/ Len(input_ids) # Len(img_feat)
             THEN EncOut("RuntimeError", "joint", None, bias)
             ELSE EncOut(NoError, "joint",
                         _compute_img_txt_embeddings(input_ids, position_ids,
                             img_feat, img_pos_feat, gather_index, img_masks),
                         bias)

(* ------------------------ head outputs and losses --------------------- *)
NoLoss == [by |-> "none", name |-> "none", on |-> << >>]

HeadOut(kind, keys, losses, scores) ==
    [kind |-> kind, keys |-> keys, losses |-> losses, scores |-> scores]

NoOutput == HeadOut("none", {}, NoLoss, << >>)

\* the logits left in the shape the head gave them
NoReshape(shape) == shape

\* logits.contiguous().view(-1, logits.size(-1))
Reshape(shape) == <<Prod(shape, Len(shape) - 1), shape[Len(shape)]>>

\* MMFLoss registered under a name, applied to {"scores": logits}
LossUnit(name, logits) == [by |-> "loss_unit", name |-> name, on |-> logits]

Outcome(err, output) == [err |-> err, output |-> output]

_process_head_outputs(dataset_name, losses, sample_list, head_out) ==
    IF head_out.kind = "mapping" /\ "losses" \in head_out.keys
    THEN Outcome(NoError, head_out)
    ELSE IF head_out.kind = "mapping" /\ ~("scores" \in head_out.keys)
    THEN Outcome("AttributeError", NoOutput)
    ELSE LET logits == Reshape(head_out.scores)
         IN  IF ~(dataset_name \in losses)
             THEN Outcome("KeyError", NoOutput)
             ELSE Outcome(NoError,
                          HeadOut("mapping", {"losses", "scores"},
                                  LossUnit(dataset_name, logits), logits))

(* ------------------------- pretraining heads -------------------------- *)
LossName(task) ==
    CASE task = "mlm" -> "masked_lm_loss"
      [] task = "itm" -> "itm_loss"
      [] task = "mrc" -> "mrc_loss"
      [] task = "mrfr" -> "mrfr_loss"
      [] task = "wra" -> "wra_loss"
      [] OTHER -> "none"

HeadStep(task) ==
    CASE task = "mlm" -> "heads.mlm"
      [] task = "itm" -> "heads.itm"
      [] task = "mrc" -> "heads.mrc"
      [] task = "mrfr" -> "heads.mrfr"
      [] task = "wra" -> "heads.wra"
      [] OTHER -> "heads.other"

SameShape(a, b) ==
    Len(a) = Len(b) /\ \A i \in 1..Len(a) : Len(a[i]) = Len(b[i])

CountTrue(mask) == Len(GatherMasked(mask, mask))

\* the fields of the sample list a pretraining head reads
HeadInputs(task) ==
    CASE task = "mlm" -> {"mlm_labels"}
      [] task = "itm" -> {"itm_labels"}
      [] task = "mrc" -> {mrc_label_key, mrc_mask_key}
      [] task = "mrfr" -> {mrfr_target_key, mrfr_mask_key}
      [] task = "wra" -> {ot_inputs_key, wra_label_key}
      [] OTHER -> {}

\* A pretraining head: reads its label fields, which must fit the fused
\* sequence, and returns a mapping holding losses under its loss name.
PretrainingHead(task, sequence_output, sl) ==
    IF ~(HeadInputs(task) \subseteq DOMAIN sl)
    THEN Outcome("KeyError", NoOutput)
    ELSE LET fits ==
                 CASE task = "mlm" ->
                        SameShape(sl["mlm_labels"].combined_labels, sequence_output)
                   [] task = "itm" ->
                        Len(sl["itm_labels"].is_correct) = Len(sequence_output)
                   [] task = "mrc" ->
                        /\ SameShape(sl[mrc_mask_key], sequence_output)
                        /\ Len(sl[mrc_label_key]) = CountTrue(sl[mrc_mask_key])
                   [] task = "mrfr" ->
                        /\ SameShape(sl[mrfr_mask_key], sequence_output)
                        /\ Len(sl[mrfr_target_key]) = CountTrue(sl[mrfr_mask_key])
                   [] task = "wra" ->
                        /\ Len(sl[wra_label_key]) = Len(sequence_output)
                        /\ \A b \in 1..Len(sequence_output) :
                              Len(sl[ot_inputs_key].txt_pad[b])
                                + Len(sl[ot_inputs_key].img_pad[b])
                                = Len(sequence_output[b])
                   [] OTHER -> FALSE
         IN  IF ~fits THEN Outcome("RuntimeError", NoOutput)
             ELSE Outcome(NoError,
                          HeadOut("mapping", {"losses"},
                                  [by |-> "head", name |-> LossName(task),
                                   on |-> <<Len(sequence_output),
                                            Len(sequence_output[1])>>],
                                  << >>))

(* -------------------- UniterForPretraining.forward -------------------- *)
\* a call that ended after the encoder ran
DoneEnc(sl, st, err, output, head_out, seq) ==
    [sl |-> sl, steps |-> st, err |-> err, output |-> output, outputs |-> head_out,
     sequence_output |-> seq]

\* a call that ended before the encoder returned
Done(sl, st, err, output, head_out) ==
    DoneEnc(sl, st, err, output, head_out, << >>)

\* a dispatch whose last branch takes every remaining task value
OpenDispatch(r) ==
    LET task == r.sl["task"]
    IN  IF task = "mlm" THEN _preprocess_mlm(r)
        ELSE IF task = "itm" THEN _preprocess_itm(r)
        ELSE IF task = "mrc" THEN _preprocess_mrc(r)
        ELSE IF task = "mrfr" THEN _preprocess_mrfr(r)
        ELSE _preprocess_wra(r)

\* the task dispatch of forward
Dispatch(r) ==
    LET task == r.sl["task"]
    IN  IF task = "mlm" THEN _preprocess_mlm(r)
        ELSE IF task = "itm" THEN _preprocess_itm(r)
        ELSE IF task = "mrc" THEN _preprocess_mrc(r)
        ELSE IF task = "mrfr" THEN _preprocess_mrfr(r)
        ELSE IF task = "wra" THEN _preprocess_wra(r)
        ELSE Run(r.sl, r.steps, "ValueError")

\* the encoder, the head of the task, and the normalisation of its output
EncodeAndHead(r, cfg) ==
    LET sl == r.sl
        task == sl["task"]
        enc == UniterModelBase_forward(sl["input_ids"], sl["position_ids"],
                   sl["image_feat"], sl["img_pos_feat"], sl["attention_mask"],
                   None, sl["image_mask"])
        st1 == Append(r.steps, "uniter")
    IN  IF enc.err # NoError THEN Done(sl, st1, enc.err, NoOutput, NoOutput)
        ELSE IF ~(task \in cfg.tasks)
        THEN DoneEnc(sl, st1, "KeyError", NoOutput, NoOutput, enc.sequence_output)
        ELSE LET head == PretrainingHead(task, enc.sequence_output, sl)
                 st2 == Append(st1, HeadStep(task))
             IN  IF head.err # NoError
                 THEN DoneEnc(sl, st2, head.err, NoOutput, NoOutput,
                              enc.sequence_output)
                 ELSE LET fin == _process_head_outputs(sl["dataset_name"],
                                     cfg.losses, sl, head.output)
                      IN  DoneEnc(sl, Append(st2, "_process_head_outputs"),
                                  fin.err, fin.output, head.output,
                                  enc.sequence_output)

\* forward without its opening assertion
NoAssertForward(sl, cfg, img_masks) ==
    LET r1 == _process_sample_list_for_pretraining(Run(sl, << >>, NoError), img_masks)
    IN  IF r1.err # NoError THEN Done(r1.sl, r1.steps, r1.err, NoOutput, NoOutput)
        ELSE LET r2 == Dispatch(r1)
             IN  IF r2.err # NoError
                 THEN Done(r2.sl, r2.steps, r2.err, NoOutput, NoOutput)
                 ELSE EncodeAndHead(r2, cfg)

UniterForPretraining_forward(sl, cfg, img_masks) ==
    IF ~Has(sl, "is_correct")
    THEN Done(sl, << >>, "AssertionError", NoOutput, NoOutput)
    ELSE LET r1 == _process_sample_list_for_pretraining(
                       Run(sl, << >>, NoError), img_masks)
         IN  IF r1.err # NoError THEN Done(r1.sl, r1.steps, r1.err, NoOutput, NoOutput)
             ELSE LET r2 == Dispatch(r1)
                  IN  IF r2.err # NoError
                      THEN Done(r2.sl, r2.steps, r2.err, NoOutput, NoOutput)
                      ELSE EncodeAndHead(r2, cfg)

(* ------------------------ the pretraining batch ----------------------- *)
FeatRow(b, n) == b * 10 + n

ClsRow(b, n) == 100 + b * 10 + n

Const2d(B, L, v) == [b \in 1..B |-> [j \in 1..L |-> v]]

OptionalFields == {"is_correct", "lm_label_ids", "input_ids_masked", "image_info_0"}

\* the batch of the test's _get_sample_list and
\* _enhance_sample_list_for_pretraining, for batch size B, T tokens, N regions
SampleList(B, T, N, is_correct) ==
    [f \in {"input_ids", "input_mask", "image_feat", "position_ids",
            "img_pos_feat", "attention_mask", "image_mask", "dataset_name",
            "task", "is_correct", "lm_label_ids", "input_ids_masked",
            "image_info_0"} |->
        CASE f = "input_ids" -> Const2d(B, T, 1)
          [] f = "input_mask" -> Const2d(B, T, 1)
          [] f = "image_feat" -> [b \in 1..B |-> [n \in 1..N |-> FeatRow(b, n)]]
          [] f = "position_ids" -> <<[t \in 1..T |-> t - 1]>>
          [] f = "img_pos_feat" -> [b \in 1..B |-> [n \in 1..N |-> FeatRow(b, n)]]
          [] f = "attention_mask" -> Const2d(B, T + N, 0)
          [] f = "image_mask" -> Const2d(B, N, FALSE)
          [] f = "dataset_name" -> "test"
          [] f = "task" -> "mlm"
          [] f = "is_correct" -> is_correct
          [] f = "lm_label_ids" -> Const2d(B, T, 0)
          [] f = "input_ids_masked" -> Const2d(B, T, 2)
          [] f = "image_info_0" ->
                [cls_prob |-> [b \in 1..B |-> [n \in 1..N |-> ClsRow(b, n)]]]]

Without(sl, missing) == [f \in (DOMAIN sl) \ missing |-> sl[f]]

NoResult == [status |-> "none", error |-> NoError, output |-> NoOutput]

Init ==
    /\ \E B \in 1..MaxB, T \in 1..MaxT, N \in 1..MaxN :
         \E is_correct \in [1..B -> {0, 1}], missing \in SUBSET OptionalFields :
            /\ Cardinality(missing) <= MaxMissing
            /\ processed_sample_list =
                   Without(SampleList(B, T, N, is_correct), missing)
    /\ \E p \in 0..RandRes :
          config = [tasks |-> PretrainTasks, losses |-> {}, mask_probability |-> p]
    /\ result = NoResult
    /\ steps = << >>
    /\ outputs = NoOutput
    /\ final_layer = << >>
    /\ calls = 0

\* sample_list["task"] = task_name; model_output = self.model(sample_list)
Forward(task) ==
    /\ calls < MaxCalls
    /\ LET sl == Put(processed_sample_list, "task", task)
           B == Len(sl["image_feat"])
           N == Len(sl["image_feat"][1])
       IN  \E img_masks \in
                 IF task \in {"mrc", "mrfr"} /\ Has(sl, "is_correct")
                 THEN [1..B -> ImgMaskOutcomes(config.mask_probability, N)]
                 ELSE {sl["image_mask"]} :
              LET d == UniterForPretraining_forward(sl, config, img_masks)
              IN  /\ processed_sample_list' = d.sl
                  /\ steps' = d.steps
                  /\ outputs' = d.outputs
                  /\ final_layer' = d.sequence_output
                  /\ result' = [status |-> IF d.err = NoError THEN "ok" ELSE "raised",
                                error |-> d.err, output |-> d.output]
    /\ calls' = calls + 1
    /\ UNCHANGED config

Next == \E task \in TaskValues : Forward(task)

Spec == Init /\ [][Next]_vars

(* ====================== properties of the pretraining forward ========== *)
PreStep(task) ==
    CASE task = "mlm" -> "_preprocess_mlm"
      [] task = "itm" -> "_preprocess_itm"
      [] task = "mrc" -> "_preprocess_mrc"
      [] task = "mrfr" -> "_preprocess_mrfr"
      [] task = "wra" -> "_preprocess_wra"
      [] OTHER -> "none"

Ran(step) == step \in Range(steps)

Index(s, e) == CHOOSE i \in 1..Len(s) : s[i] = e

MaskedPositions(mask) ==
    {p \in (1..Len(mask)) \X (1..Len(mask[1])) : mask[p[1]][p[2]]}

\* the batch-major rank of masked position (b, n) among the masked positions
Rank(mask, b, n) ==
    Cardinality({p \in MaskedPositions(mask) :
                    p[1] < b \/ (p[1] = b /\ p[2] <= n)})

\* rows is the list of x's rows at the masked positions, batch-major
IsGatherOf(rows, x, mask) ==
    /\ Len(rows) = Cardinality(MaskedPositions(mask))
    /\ \A p \in MaskedPositions(mask) : rows[Rank(mask, p[1], p[2])] = x[p[1]][p[2]]

\* C1: the image mask stored by _add_image_feat_masked has one row per example
\* and a true position in every row, for every mask probability (0 included),
\* and _get_img_mask never returns an all-false list.
C1_MaskNeverAllFalse ==
    /\ Ran("_add_image_feat_masked") =>
          LET image_mask == processed_sample_list["image_mask"]
          IN  /\ Len(image_mask) = Len(processed_sample_list["image_feat"])
              /\ \A b \in 1..Len(image_mask) :
                    \E n \in 1..Len(image_mask[b]) : image_mask[b][n]
    /\ \A N \in 1..MaxN :
          \A m \in ImgMaskOutcomes(config.mask_probability, N) :
             \E n \in 1..N : m[n]

C1_Witness ==
    /\ Ran("_add_image_feat_masked")
    /\ config.mask_probability = 0
    /\ Len(processed_sample_list["image_mask"]) = MaxB
    /\ Len(processed_sample_list["image_mask"][1]) = MaxN

NumKept(is_correct) ==
    Cardinality({i \in 1..Len(is_correct) : PosPairsMask(is_correct)[i]})

\* C2: after a call for a task other than itm and wra, the listed tensors of
\* the batch hold along dimension 0 only the examples whose is_correct is
\* nonzero (all of them when none is nonzero); for itm and wra nothing is
\* filtered.  input_ids is left out: mlm rewrites it after the common step.
C2_MismatchedRemoved ==
    (calls > 0 /\ result.status = "ok") =>
        LET sl == processed_sample_list
            keep == PosPairsMask(sl["is_correct"])
            B == Len(sl["is_correct"])
            N == Len(sl["img_pos_feat"][1])
        IN  IF sl["task"] \in {"itm", "wra"}
            THEN \A f \in (tensor_names \cap DOMAIN sl) : Len(sl[f]) = B
            ELSE /\ \A f \in (tensor_names \cap DOMAIN sl) \ {"input_ids"} :
                       Len(sl[f]) = NumKept(sl["is_correct"])
                 /\ \A b \in 1..Len(sl["img_pos_feat"]) :
                       \E e \in 1..B : /\ keep[e]
                                       /\ sl["img_pos_feat"][b][1] = FeatRow(e, 1)

C4_MissingIsCorrectFails ==
    (calls > 0 /\ ~Has(processed_sample_list, "is_correct")) =>
        /\ result.status = "raised"
        /\ result.error = "AssertionError"
        /\ steps = << >>
        /\ result.output = NoOutput

C4_Witness ==
    /\ calls = MaxCalls
    /\ ~Has(processed_sample_list, "is_correct")
    /\ processed_sample_list["task"] = "mrc"

HeadSteps == {HeadStep(t) : t \in PretrainTasks}

\* C5: each of the five task values runs its own preprocessing routine and no
\* other, then the head registered under the task; any other value raises and
\* reaches neither the encoder nor a head.
C5_ClosedDispatch ==
    calls > 0 =>
        LET task == processed_sample_list["task"]
        IN  /\ \A t \in PretrainTasks : Ran(PreStep(t)) => t = task
            /\ \A h \in HeadSteps : Ran(h) =>
                  /\ h = HeadStep(task)
                  /\ Ran(PreStep(task))
                  /\ Index(steps, PreStep(task)) < Index(steps, "uniter")
                  /\ Index(steps, "uniter") < Index(steps, h)
            /\ result.status = "ok" =>
                  task \in PretrainTasks /\ Ran(PreStep(task)) /\ Ran(HeadStep(task))
            /\ ~(task \in PretrainTasks) =>
                  /\ result.status = "raised"
                  /\ ~Ran("uniter")
                  /\ \A h \in HeadSteps \cup {HeadStep(task)} : ~Ran(h)

C5_Witness ==
    /\ processed_sample_list["task"] = "vqa"
    /\ result.error = "ValueError"
    /\ Ran("_remove_mismatched_captions")

\* C9: in an mrfr call the stored targets are the rows of image_feat as it is
\* on entry to the call at the positions of the freshly drawn image_mask,
\* batch-major, and image_feat comes out as the masked copy: zero at those
\* positions, the entry rows elsewhere.
C9_MrfrTargetsRaw ==
    [][(calls' = calls + 1 /\ "_preprocess_mrfr" \in Range(steps')) =>
          LET entry == processed_sample_list["image_feat"]
              image_mask == processed_sample_list'["image_mask"]
              out == processed_sample_list'["image_feat"]
          IN  /\ IsGatherOf(processed_sample_list'[mrfr_target_key], entry, image_mask)
              /\ Len(out) = Len(entry)
              /\ \A b \in 1..Len(entry) : \A n \in 1..Len(entry[b]) :
                    out[b][n] = IF image_mask[b][n] THEN 0 ELSE entry[b][n]
              /\ out = processed_sample_list'["image_feat_masked"]]_vars

C9_Witness ==
    /\ processed_sample_list["task"] = "mrfr"
    /\ result.status = "ok"
    /\ Len(processed_sample_list[mrfr_target_key]) = 2
    /\ \A k \in 1..2 : processed_sample_list[mrfr_target_key][k] # 0
    /\ \E b \in 1..Len(processed_sample_list["image_feat"]) :
          processed_sample_list["image_feat"][b][1] # 0

\* C10: in an mrc call the combined mask has length T+N per example, is false
\* at the T text positions and equals image_mask over the N image positions;
\* the gathered label rows are the classifier-probability rows at the true
\* positions, one per true entry of the combined mask, batch-major.
C10_MrcCombinedMask ==
    (calls > 0 /\ Ran("_preprocess_mrc")) =>
        LET sl == processed_sample_list
            image_mask == sl["image_mask"]
            concat_mask == sl[mrc_mask_key]
            T == Len(sl["input_ids"][1])
            N == Len(image_mask[1])
        IN  /\ Len(concat_mask) = Len(image_mask)
            /\ \A b \in 1..Len(concat_mask) :
                  /\ Len(concat_mask[b]) = T + N
                  /\ \A t \in 1..T : concat_mask[b][t] = FALSE
                  /\ \A n \in 1..N : concat_mask[b][T + n] = image_mask[b][n]
            /\ Len(sl[mrc_label_key]) = Cardinality(MaskedPositions(concat_mask))
            /\ IsGatherOf(sl[mrc_label_key], sl["cls_prob"], image_mask)

C10_Witness ==
    /\ Ran("_preprocess_mrc")
    /\ result.status = "ok"
    /\ Len(processed_sample_list["input_ids"][1]) = MaxT
    /\ Len(processed_sample_list[mrc_label_key]) = 3

\* C11: in an mlm call the combined labels of each example are lm_label_ids
\* followed by one ignore index per image position, so they have the length
\* and the batch size of the fused sequence; the encoder reads the tokens of
\* input_ids_masked.  A batch without lm_label_ids or input_ids_masked raises
\* with neither mlm_labels nor input_ids written.
C11_MlmLabelsAndInput ==
    [][(calls' = calls + 1 /\ processed_sample_list'["task"] = "mlm") =>
          LET entry == processed_sample_list
              sl == processed_sample_list'
          IN  /\ (Has(entry, "lm_label_ids") /\ Has(entry, "input_ids_masked")
                    /\ Has(entry, "is_correct")) =>
                    LET combined == sl["mlm_labels"].combined_labels
                        text == entry["lm_label_ids"]
                        masked == entry["input_ids_masked"]
                        N == Len(entry["image_feat"][1])
                    IN  /\ "_preprocess_mlm" \in Range(steps')
                        /\ "uniter" \in Range(steps')
                        /\ Len(combined) = Len(final_layer')
                        /\ \A b \in 1..Len(combined) :
                              /\ combined[b] = text[b] \o [n \in 1..N |-> ignore_index]
                              /\ Len(combined[b]) = Len(text[b]) + N
                              /\ Len(combined[b]) = Len(final_layer'[b])
                              /\ \A t \in 1..Len(masked[b]) :
                                    /\ final_layer'[b][t].mod = "txt"
                                    /\ final_layer'[b][t].val = masked[b][t]
              /\ (~Has(entry, "lm_label_ids") \/ ~Has(entry, "input_ids_masked")) =>
                    /\ result'.status = "raised"
                    /\ result'.error = "AssertionError"
                    /\ ~("uniter" \in Range(steps'))
                    /\ Has(sl, "mlm_labels") = Has(entry, "mlm_labels")
                    /\ sl["input_ids"] = entry["input_ids"]
                    /\ final_layer' = << >>]_vars

C11_Witness ==
    /\ processed_sample_list["task"] = "mlm"
    /\ result.status = "ok"
    /\ Len(processed_sample_list["mlm_labels"].combined_labels) = MaxB
    /\ Len(processed_sample_list["mlm_labels"].combined_labels[MaxB]) = MaxT + MaxN
    /\ processed_sample_list["mlm_labels"].combined_labels[MaxB][MaxT + MaxN]
          = ignore_index
    /\ final_layer[MaxB][MaxT].val = processed_sample_list["input_ids_masked"][MaxB][MaxT]

\* the region features the batch carried before the first call
OriginalFeat(image_feat) ==
    [b \in 1..Len(image_feat) |-> [n \in 1..Len(image_feat[b]) |-> FeatRow(b, n)]]

\* C14: in any sequence of calls on one batch, image_feat on
\* entry to every call equals the features the batch originally carried, and
\* the targets stored by an mrfr call are the original rows at that call's
\* masked positions; earlier mrc or mrfr calls alter neither.
C14_FeaturesNeverAltered ==
    LET sl == processed_sample_list
        original == OriginalFeat(sl["image_feat"])
    IN  /\ calls < MaxCalls => sl["image_feat"] = original
        /\ (calls > 0 /\ Ran("_preprocess_mrfr")) =>
              IsGatherOf(sl[mrfr_target_key], original, sl["image_mask"])

\* C14, masking by earlier calls counted in: the batch starts with its original features; a call changes
\* image_feat only when it is an mrc or mrfr call whose preprocessing
\* completes, and then it zeroes exactly the rows at that call's masked
\* positions, so on entry to every call each row is the original row or zero
\* (zero where an earlier mrc or mrfr call masked it); the targets stored by
\* an mrfr call are the rows image_feat held on entry to that call at the
\* call's masked positions, each the original row or zero.
C14_FeaturesMaskedCumulatively ==
    [][calls' = calls + 1 =>
          LET entry == processed_sample_list["image_feat"]
              original == OriginalFeat(entry)
              sl == processed_sample_list'
              out == sl["image_feat"]
              swapped == /\ sl["task"] \in {"mrc", "mrfr"}
                         /\ PreStep(sl["task"]) \in Range(steps')
                         /\ "uniter" \in Range(steps')
          IN  /\ calls = 0 => entry = original
              /\ \A b \in 1..Len(entry) : \A n \in 1..Len(entry[b]) :
                    /\ entry[b][n] \in {original[b][n], 0}
                    /\ out[b][n] = IF swapped /\ sl["image_mask"][b][n]
                                   THEN 0 ELSE entry[b][n]
              /\ Len(out) = Len(entry)
              /\ "_preprocess_mrfr" \in Range(steps') =>
                    /\ IsGatherOf(sl[mrfr_target_key], entry, sl["image_mask"])
                    /\ \A k \in 1..Len(sl[mrfr_target_key]) :
                          \E b \in 1..Len(entry) : \E n \in 1..Len(entry[b]) :
                             sl[mrfr_target_key][k] \in {original[b][n], 0}]_vars

\* an mrfr call after an mrc call has masked a row: a target row is zero
C14_Witness ==
    /\ calls = 2
    /\ processed_sample_list["task"] = "mrfr"
    /\ result.status = "ok"
    /\ Has(processed_sample_list, mrc_label_key)
    /\ \E k \in 1..Len(processed_sample_list[mrfr_target_key]) :
          processed_sample_list[mrfr_target_key][k] = 0
    /\ \E k \in 1..Len(processed_sample_list[mrfr_target_key]) :
          processed_sample_list[mrfr_target_key][k] # 0

\* C15: a call that raises during preprocessing or dispatch (is_correct
\* missing, a task value outside the five, or a field its task requires
\* missing) leaves every field of the batch as it was on entry to the call,
\* the task value the caller set included: no field is added or overwritten.
C15_FailureLeavesBatch ==
    [][(/\ calls' = calls + 1
        /\ result'.status = "raised"
        /\ ~("uniter" \in Range(steps'))) =>
          processed_sample_list' =
              Put(processed_sample_list, "task", processed_sample_list'["task"])]_vars

(* ============ word-region alignment on a batch with padded text ======== *)
\* the batch of SampleList with the text of example b holding lens[b] tokens,
\* right-padded to T: input_ids is 0 and input_mask is 0 at the padded places
PaddedSampleList(B, T, N, is_correct, lens) ==
    LET sl == SampleList(B, T, N, is_correct)
    IN  [f \in DOMAIN sl |->
            CASE f = "input_ids" ->
                    [b \in 1..B |-> [t \in 1..T |-> IF t <= lens[b] THEN 1 ELSE 0]]
              [] f = "input_mask" ->
                    [b \in 1..B |-> [t \in 1..T |-> IF t <= lens[b] THEN 1 ELSE 0]]
              [] f = "attention_mask" ->
                    [b \in 1..B |->
                        [j \in 1..(T + N) |-> IF j <= lens[b] \/ j > T THEN 1 ELSE 0]]
              [] OTHER -> sl[f]]

InitWra ==
    /\ \E B \in 1..MaxB, T \in 1..MaxT, N \in 1..MaxN :
         \E is_correct \in [1..B -> {0, 1}], lens \in [1..B -> 1..T],
            missing \in SUBSET OptionalFields :
            /\ Cardinality(missing) <= MaxMissing
            /\ processed_sample_list =
                   Without(PaddedSampleList(B, T, N, is_correct, lens), missing)
    /\ config = [tasks |-> PretrainTasks, losses |-> {}, mask_probability |-> 0]
    /\ result = NoResult
    /\ steps = << >>
    /\ outputs = NoOutput
    /\ final_layer = << >>
    /\ calls = 0

NextWra == Forward("wra")

SpecWra == InitWra /\ [][NextWra]_vars

\* the number of tokens of a text row that input_mask marks as real
TextLen(input_mask_row) ==
    Cardinality({t \in 1..Len(input_mask_row) : input_mask_row[t] = 1})

\* lengths are per example; up to the longest of them, pad[i][j] is true
\* exactly at the positions from lens[i] on
IsPadOf(pad, lens) ==
    /\ Len(pad) = Len(lens)
    /\ \A i \in 1..Len(pad) :
          /\ Len(pad[i]) >= SeqMax(lens, 1)
          /\ \A j \in 1..SeqMax(lens, 1) : pad[i][j] = (j > lens[i])

\* C12: in a wra call the text and image padding masks are built from the
\* per-example sequence lengths: up to the length of the longest example of
\* the batch, each is true exactly at the positions past the example's own
\* length, so a shorter example has its trailing positions flagged; the wra
\* label is is_correct unchanged.
C12_PadsFromLengths ==
    (calls > 0 /\ Ran("_preprocess_wra") /\ result.status = "ok") =>
        LET sl == processed_sample_list
            B == Len(sl["input_mask"])
            txt_lens == [i \in 1..B |-> TextLen(sl["input_mask"][i])]
            num_bbs == [i \in 1..B |-> Len(sl["image_feat"][i])]
        IN  /\ IsPadOf(sl[ot_inputs_key].txt_pad, txt_lens)
            /\ IsPadOf(sl[ot_inputs_key].img_pad, num_bbs)
            /\ sl[wra_label_key] = sl["is_correct"]

(* ================== the joint encoder called on its own ================ *)
Unused == << >>

EncoderArgs(input_ids, position_ids, img_feat, img_pos_feat, attention_mask, gather_index, img_masks) ==
    [input_ids |-> input_ids, position_ids |-> position_ids,
     img_feat |-> img_feat, img_pos_feat |-> img_pos_feat,
     attention_mask |-> attention_mask, gather_index |-> gather_index,
     img_masks |-> img_masks]

Tokens(B, T) == [b \in 1..B |-> [t \in 1..T |-> FeatRow(b, t)]]

Regions(B, N) == [b \in 1..B |-> [n \in 1..N |-> ClsRow(b, n)]]

InitEncoder ==
    /\ processed_sample_list =
          EncoderArgs(None, None, None, None, None, None, None)
    /\ config = Unused
    /\ result = EncOut(NoError, "none", None, None)
    /\ steps = << >>
    /\ outputs = NoOutput
    /\ final_layer = << >>
    /\ calls = 0

\* model(input_ids, position_ids, img_feat, img_pos_feat, attention_mask, ...)
EncoderForward ==
    /\ calls = 0
    /\ \E Bt \in 0..MaxB, T \in 1..MaxT, Bi \in 0..MaxB, N \in 1..MaxN :
         LET input_ids == IF Bt = 0 THEN None ELSE Tokens(Bt, T)
             img_feat == IF Bi = 0 THEN None ELSE Regions(Bi, N)
             B == IF Bt > 0 THEN Bt ELSE IF Bi > 0 THEN Bi ELSE 1
             L == (IF Bt = 0 THEN 0 ELSE T) + (IF Bi = 0 THEN 0 ELSE N)
             position_ids == <<[t \in 1..T |-> t - 1]>>
         IN  \E gather_index \in {None, Const2d(B, L, 1),
                                  [b \in 1..B |-> [j \in 1..L |-> L + 1 - j]]},
                img_masks \in {None} \cup
                    (IF Bi = 0 THEN {}
                     ELSE {Const2d(Bi, N, FALSE),
                           [b \in 1..Bi |-> [n \in 1..N |-> n = 1]]}),
                pad \in 0..1 :
                LET attention_mask ==
                        [b \in 1..B |-> [j \in 1..L |-> IF j = L THEN pad ELSE 1]]
                    args == EncoderArgs(input_ids, position_ids, img_feat,
                                img_feat, attention_mask, gather_index, img_masks)
                IN  /\ processed_sample_list' = args
                    /\ result' = UniterModelBase_forward(input_ids, position_ids,
                                     img_feat, img_feat, attention_mask,
                                     gather_index, img_masks)
    /\ calls' = calls + 1
    /\ UNCHANGED <<config, steps, outputs, final_layer>>

NextEncoder == EncoderForward

SpecEncoder == InitEncoder /\ [][NextEncoder]_vars

\* C7: one embedding path per call: image-only when input_ids is absent,
\* text-only when input_ids is present and image_feat absent, joint when both
\* are present; the joint sequence has length T+N, the T text positions first
\* and the N image positions after them in their original order, whatever
\* gather_index is.
C7_EmbeddingPath ==
    calls > 0 =>
        LET a == processed_sample_list
            out == result.sequence_output
            T == IF a.input_ids = None THEN 0 ELSE Len(a.input_ids[1])
            N == IF a.img_feat = None THEN 0 ELSE Len(a.img_feat[1])
        IN  /\ result.path = "image" <=> a.input_ids = None
            /\ result.path = "text" <=> (a.input_ids # None /\ a.img_feat = None)
            /\ result.path = "joint" <=> (a.input_ids # None /\ a.img_feat # None)
            /\ result.err = NoError =>
                  /\ Len(out) = (IF T > 0 THEN Len(a.input_ids) ELSE Len(a.img_feat))
                  /\ \A b \in 1..Len(out) :
                        /\ Len(out[b]) = T + N
                        /\ \A t \in 1..T :
                              /\ out[b][t].mod = "txt"
                              /\ out[b][t].pos = t - 1
                              /\ out[b][t].val = a.input_ids[b][t]
                        /\ \A n \in 1..N :
                              /\ out[b][T + n].mod = "img"
                              /\ out[b][T + n].pos = n
                              /\ out[b][T + n].val = a.img_feat[b][n]

C7_Witness ==
    /\ result.path = "joint"
    /\ result.err = NoError
    /\ processed_sample_list.gather_index # None
    /\ processed_sample_list.gather_index[1][1] > 1
    /\ Len(result.sequence_output) = MaxB
    /\ Len(result.sequence_output[1]) = MaxT + MaxN

(* ====================== the classification wrapper ===================== *)
DatasetNames == {"test", "vqa2"}

\* a loss unit for every listed task, configured or not
AllTasks_init_losses(tasks, loss_configs) == tasks

\* init_losses: a loss unit for each listed task that has a loss configuration
init_losses(tasks, loss_configs) == {task \in tasks : task \in loss_configs}

\* UniterForClassification.__init__: a head for each listed task, looked up in
\* the head configurations, then the loss units; a listed task without a loss
\* configuration is logged as a warning
UniterForClassification_init(tasks, head_configs, loss_configs) ==
    IF \E task \in tasks : ~(task \in head_configs)
    THEN [status |-> "raised", error |-> "KeyError", tasks |-> tasks,
          heads |-> {}, losses |-> {}, warnings |-> {},
          head_configs |-> head_configs, loss_configs |-> loss_configs,
          mask_probability |-> 0]
    ELSE [status |-> "constructed", error |-> NoError, tasks |-> tasks,
          heads |-> tasks, losses |-> init_losses(tasks, loss_configs),
          warnings |-> {task \in tasks : ~(task \in loss_configs)},
          head_configs |-> head_configs, loss_configs |-> loss_configs,
          mask_probability |-> 0]

UniterForClassification_forward(sl, cfg, head_out) ==
    LET enc == UniterModelBase_forward(sl["input_ids"], sl["position_ids"],
                   sl["image_feat"], sl["img_pos_feat"], sl["attention_mask"],
                   None, sl["image_mask"])
        dataset_name == sl["dataset_name"]
    IN  IF enc.err # NoError
        THEN Done(sl, <<"uniter">>, enc.err, NoOutput, NoOutput)
        ELSE IF ~(dataset_name \in cfg.heads)
        THEN DoneEnc(sl, <<"uniter">>, "KeyError", NoOutput, NoOutput,
                     enc.sequence_output)
        ELSE LET fin == _process_head_outputs(dataset_name, cfg.losses, sl, head_out)
             IN  DoneEnc(sl, <<"uniter", "heads", "_process_head_outputs">>,
                         fin.err, fin.output, head_out, enc.sequence_output)

Shapes == UNION {[1..k -> 1..MaxN] : k \in 1..MaxRank}

HeadLoss == [by |-> "head", name |-> "head_loss", on |-> << >>]

\* what a head may return: a tensor of scores, or a mapping
HeadOutputs ==
    {HeadOut("tensor", {}, NoLoss, shape) : shape \in Shapes}
    \cup {HeadOut("mapping", keys,
                  IF "losses" \in keys THEN HeadLoss ELSE NoLoss,
                  IF "scores" \in keys THEN shape ELSE << >>) :
            keys \in SUBSET {"losses", "scores", "logits"}, shape \in Shapes}

InitCls ==
    /\ \E B \in 1..MaxB :
          processed_sample_list =
              Without(SampleList(B, MaxT, MaxN, [i \in 1..B |-> 1]),
                      OptionalFields \cup {"task"})
    /\ \E tasks \in (SUBSET DatasetNames) \ {{}} :
         \E head_configs \in SUBSET DatasetNames, loss_configs \in SUBSET DatasetNames :
            config = UniterForClassification_init(tasks, head_configs, loss_configs)
    /\ result = NoResult
    /\ steps = << >>
    /\ outputs = NoOutput
    /\ final_layer = << >>
    /\ calls = 0

ClassificationForward ==
    /\ calls = 0
    /\ config.status = "constructed"
    /\ \E dataset_name \in DatasetNames, head_out \in HeadOutputs :
          LET d == UniterForClassification_forward(
                       Put(processed_sample_list, "dataset_name", dataset_name),
                       config, head_out)
          IN  /\ processed_sample_list' = d.sl
              /\ steps' = d.steps
              /\ outputs' = d.outputs
              /\ final_layer' = d.sequence_output
              /\ result' = [status |-> IF d.err = NoError THEN "ok" ELSE "raised",
                            error |-> d.err, output |-> d.output]
    /\ calls' = calls + 1
    /\ UNCHANGED config

NextCls == ClassificationForward

SpecCls == InitCls /\ [][NextCls]_vars

\* number of rows of a tensor of this shape once every dimension but the last
\* is folded into one
LeadingCount(shape) ==
    Cardinality({ix \in [1..(Len(shape) - 1) -> 1..(MaxN + 1)] :
                    \A i \in 1..(Len(shape) - 1) : ix[i] <= shape[i]})

\* C6: the result of a wrapper forward call holds losses: a head output that
\* is a mapping holding losses is returned unchanged; otherwise the scores are
\* reshaped to (-1, last dimension), the loss unit registered under the
\* batch's dataset_name is applied to them, and the result is {losses, scores}
\* with the reshaped scores.
C6_ResultHasLosses ==
    (calls > 0 /\ result.status = "ok") =>
        /\ "losses" \in result.output.keys
        /\ IF outputs.kind = "mapping" /\ "losses" \in outputs.keys
           THEN result.output = outputs
           ELSE LET logits == <<LeadingCount(outputs.scores),
                                outputs.scores[Len(outputs.scores)]>>
                    dataset_name == processed_sample_list["dataset_name"]
                IN  /\ dataset_name \in config.losses
                    /\ result.output.kind = "mapping"
                    /\ result.output.keys = {"losses", "scores"}
                    /\ result.output.scores = logits
                    /\ result.output.losses =
                          [by |-> "loss_unit", name |-> dataset_name, on |-> logits]

C6_Witness ==
    /\ result.status = "ok"
    /\ outputs.kind = "mapping"
    /\ outputs.keys = {"scores", "logits"}
    /\ Len(outputs.scores) = 3
    /\ result.output.scores = <<4, 2>>

\* C13: construction with every listed task holding a head configuration
\* succeeds whether or not the task has a loss configuration; it registers a
\* head for every listed task and a loss unit for exactly the listed tasks
\* that have a loss configuration, the others only being warned about.  A
\* forward call for a task without a loss unit succeeds, with the head's own
\* output as its result, whenever the head returns a mapping holding losses.
C13_LossUnitsOptional ==
    /\ (config.tasks \subseteq config.head_configs) =>
          /\ config.status = "constructed"
          /\ config.heads = config.tasks
          /\ config.losses = config.tasks \cap config.loss_configs
          /\ config.warnings = config.tasks \ config.loss_configs
    /\ (/\ calls > 0
        /\ processed_sample_list["dataset_name"] \in config.tasks \ config.loss_configs
        /\ outputs.kind = "mapping"
        /\ "losses" \in outputs.keys) =>
          /\ result.status = "ok"
          /\ result.output = outputs

C13_Witness ==
    /\ calls > 0
    /\ config.tasks = DatasetNames
    /\ config.loss_configs = {"vqa2"}
    /\ config.losses = {"vqa2"}
    /\ config.warnings = {"test"}
    /\ processed_sample_list["dataset_name"] = "test"
    /\ outputs.keys = {"losses"}
    /\ result.status = "ok"

(* =================== construction of the encoder base ================== *)
Retries == 6

\* retry_n(n, fn, ...): fn is called again, unchanged, after each of its first
\* n failures; the failure after those is raised.  failures is the number of
\* times the fetch fails before it would succeed.
retry_n(n, failures) ==
    IF failures <= n
    THEN [ok |-> TRUE, attempts |-> failures + 1]
    ELSE [ok |-> FALSE, attempts |-> n + 1]

\* a fetch called directly
Direct(failures) ==
    IF failures = 0
    THEN [ok |-> TRUE, attempts |-> 1]
    ELSE [ok |-> FALSE, attempts |-> 1]

NotFetched == [ok |-> TRUE, attempts |-> 0]

\* UniterModelBase.__init__: BertConfig.from_pretrained for the text
\* embeddings, then under retry_n BertConfig.from_pretrained for the encoder
\* and, unless random_init, BertModel.from_pretrained
UniterModelBase_init(random_init, failures) ==
    LET bert_config == Direct(failures[1])
        hf_config == IF bert_config.ok THEN retry_n(Retries, failures[2])
                     ELSE NotFetched
        encoder == IF bert_config.ok /\ hf_config.ok /\ ~random_init
                   THEN retry_n(Retries, failures[3])
                   ELSE NotFetched
        fetches == <<bert_config, hf_config, encoder>>
    IN  [status |-> IF \A i \in 1..3 : fetches[i].ok THEN "constructed" ELSE "failed",
         fetches |-> fetches]

InitCtor ==
    /\ processed_sample_list = Unused
    /\ config = [random_init |-> FALSE]
    /\ result = [status |-> "none", fetches |-> <<NotFetched, NotFetched, NotFetched>>]
    /\ steps = <<0, 0, 0>>
    /\ outputs = NoOutput
    /\ final_layer = << >>
    /\ calls = 0

Construct ==
    /\ calls = 0
    /\ \E random_init \in BOOLEAN, failures \in [1..3 -> 0..MaxFailures] :
          /\ config' = [random_init |-> random_init]
          /\ steps' = failures
          /\ result' = UniterModelBase_init(random_init, failures)
    /\ calls' = 1
    /\ UNCHANGED <<processed_sample_list, outputs, final_layer>>

NextCtor == Construct

SpecCtor == InitCtor /\ [][NextCtor]_vars

\* C8: every fetch of a pretrained configuration or of pretrained weights
\* made during construction runs under the bounded retry: a fetch that fails
\* no more than Retries times does not fail construction, and a fetch that
\* fails construction has been tried Retries + 1 times.
C8_EveryFetchRetried ==
    calls > 0 =>
        /\ (\A i \in 1..3 : steps[i] <= Retries) => result.status = "constructed"
        /\ \A i \in 1..3 :
              ~result.fetches[i].ok => result.fetches[i].attempts = Retries + 1

====
